---- MODULE Spec2Model ----
(***************************************************************************)
(* Slot extraction, numbering and fill engines of the mini crossword       *)
(* generators (mini_crossword_5x5.py, mini_crossword_6x6.py and the        *)
(* backtracking generator mini_crossword_nyt_6x6.py), the pattern          *)
(* transforms of mini_crossword_6x6.py, and the word-guessing window of    *)
(* main.py with its clue worker threads.                                   *)
(*                                                                         *)
(* Python values are represented as follows.                               *)
(*   - a pattern / mask / grid of size n is a function on 0..n-1 whose     *)
(*     values are functions on 0..n-1, so pattern[r][c] reads as in the    *)
(*     source;                                                             *)
(*   - a word (a Python str) is a sequence of one-letter strings; the      *)
(*     source's w[i] is word[i + 1];                                       *)
(*   - a slot (a Python dict) is a record; the optional keys "number" and  *)
(*     "word" are always present and hold NoNumber / NoWord when the dict  *)
(*     has no such key;                                                    *)
(*   - a Python list is a sequence.                                        *)
(***************************************************************************)
EXTENDS Integers, Sequences, FiniteSets, TLC

\* ------------------------------------------------------------------ bounds
\* Side of the square patterns given to slot extraction.
MaxGrid == 3
\* Largest number of black cells in a pattern given to slot extraction.
MaxBlack == 3

VARIABLES
    variant,        \* which generator runs: "retry5", "retry6" or "backtrack"
    WORD_MIN,       \* module constant WORD_MIN of the running generator
    WORD_MAX,       \* module constant WORD_MAX of the running generator
    pattern,        \* the pattern handed to slot extraction
    mask,           \* the mask returned by slot extraction
    slots,          \* the slot list (extraction result, then numbered)
    number_grid,    \* the number grid returned by assign_numbers
    first,          \* result of the previous extraction (for re-extraction)
    base_pattern,   \* the pattern the transforms started from (BASE_PATTERN)
    applied,        \* history: the transforms applied to base_pattern, in order
    arg,            \* the list passed to the last transform, as it is after the call
    current_word,   \* main.py: self.current_word
    word_var,       \* main.py: the entry text (self.word_var)
    clue_var,       \* main.py: the clue text (self.clue_var)
    status,         \* main.py: the text of the status label
    workers,        \* main.py: the clue worker threads started so far
    GRID_SIZE,      \* free-placement generator: module constant GRID_SIZE
    NUM_WORDS,      \* free-placement generator: module constant NUM_WORDS
    max_attempts,   \* generate_crossword: max_attempts
    words_pool,     \* free-placement generator: words_pool
    words_info,     \* free-placement generator: words_info
    number_counter, \* free-placement generator: number_counter
    placed_words,   \* generate_crossword: placed_words
    attempts,       \* generate_crossword: attempts
    used_words,     \* generate_crossword: used_words
    definition_cache,   \* free-placement generator: definition_cache
    pc,             \* position of the main program
    words_by_length,        \* fill_crossword argument: length -> list of words
    max_restarts,           \* fill_crossword argument (randomized retry)
    max_attempts_per_slot,  \* fill_crossword argument
    grid,           \* the grid under construction
    slots_copy,     \* slots_copy of the 6x6 fill_crossword
    attempt,        \* loop variable of "for attempt in range(max_restarts)"
    order,          \* the shuffled order (retry) / the sorted order (backtracking)
    pos,            \* position in order of the slot being filled (from 1)
    word,           \* the drawn word
    tries,          \* the tries counter of the current slot
    ok,             \* the ok flag
    stack,          \* active backtrack() frames, innermost last
    idx,            \* argument of the backtrack() call being entered
    retval,         \* value returned by the backtrack() call that just ended
    ret,            \* what fill_crossword returned
    rejected,       \* history: fits tests failed for the current slot
    empty_seen      \* history: an empty lexicon bucket was met

slotVars == <<variant, WORD_MIN, WORD_MAX, pattern, mask, number_grid, first>>
patVars == <<base_pattern, applied, arg>>
appVars == <<current_word, word_var, clue_var, status, workers>>
genVars == <<GRID_SIZE, NUM_WORDS, max_attempts, words_pool, words_info, number_counter,
             placed_words, attempts, used_words, definition_cache>>
fillVars == <<words_by_length, max_restarts, max_attempts_per_slot, grid, slots_copy,
              attempt, order, pos, word, tries, ok, stack, idx, retval, ret,
              rejected, empty_seen>>
vars == <<slotVars, patVars, appVars, genVars, slots, pc, fillVars>>

\* ------------------------------------------------------------- Python values
None == "None"
NoWord == <<>>
NoNumber == 0
Variants == {"retry5", "retry6", "backtrack"}

Idx(n) == 0 .. (n - 1)

\* len(pattern): the number of rows.
GridSizeOf(m) == Cardinality(DOMAIN m)

\* Square patterns of side n over '.' (white) and '#' (black).
Patterns(n) ==
    { p \in [Idx(n) -> [Idx(n) -> {".", "#"}]] :
        Cardinality({ rc \in Idx(n) \X Idx(n) : p[rc[1]][rc[2]] = "#" }) <= MaxBlack }

\* mask = [[c == "." for c in row] for row in pattern]
MaskOf(p) == [r \in DOMAIN p |-> [c \in DOMAIN p[r] |-> p[r][c] = "."]]

\* The pattern that corresponds to a mask: '.' for True, '#' for False.
PatternOf(m) == [r \in DOMAIN m |-> [c \in DOMAIN m[r] |-> IF m[r][c] THEN "." ELSE "#"]]

Slot(d, r, c, L) ==
    [dir |-> d, row |-> r, col |-> c, length |-> L, number |-> NoNumber, word |-> NoWord]

\* rr, cc of the i-th cell of a slot (i counted from 0).
CellRow(s, i) == s.row + (IF s.dir = "down" THEN i ELSE 0)
CellCol(s, i) == s.col + (IF s.dir = "across" THEN i ELSE 0)
SlotCells(s) == { <<CellRow(s, i), CellCol(s, i)>> : i \in Idx(s.length) }

\* ------------------------------------------------------------ slot scanning
\* while c < grid_size and mask_in[r][c]: c += 1
RECURSIVE RunEndAcross(_, _, _, _)
RunEndAcross(m, n, r, c) ==
    IF c < n /\ m[r][c] THEN RunEndAcross(m, n, r, c + 1) ELSE c

\* while r < grid_size and mask_in[r][c]: r += 1
RECURSIVE RunEndDown(_, _, _, _)
RunEndDown(m, n, r, c) ==
    IF r < n /\ m[r][c] THEN RunEndDown(m, n, r + 1, c) ELSE r

\* Mutant: the lower bound of the length test is dropped.
MutLengthOk(length) == length <= WORD_MAX

\* if WORD_MIN <= length <= WORD_MAX
LengthOk(length) == WORD_MIN <= length /\ length <= WORD_MAX

\* The inner while loop of the "Across" pass for row r, from column c on.
RECURSIVE AcrossRow(_, _, _, _)
AcrossRow(m, n, r, c) ==
    IF c >= n THEN <<>>
    ELSE IF m[r][c] /\ (c = 0 \/ ~m[r][c - 1])
         THEN LET e == RunEndAcross(m, n, r, c)
                  length == e - c
              IN  (IF LengthOk(length)
                   THEN <<Slot("across", r, c, length)>>
                   ELSE <<>>) \o AcrossRow(m, n, r, e)
         ELSE AcrossRow(m, n, r, c + 1)

\* The inner while loop of the "Down" pass for column c, from row r on.
RECURSIVE DownCol(_, _, _, _)
DownCol(m, n, r, c) ==
    IF r >= n THEN <<>>
    ELSE IF m[r][c] /\ (r = 0 \/ ~m[r - 1][c])
         THEN LET e == RunEndDown(m, n, r, c)
                  length == e - r
              IN  (IF LengthOk(length)
                   THEN <<Slot("down", r, c, length)>>
                   ELSE <<>>) \o DownCol(m, n, e, c)
         ELSE DownCol(m, n, r + 1, c)

\* for r in range(grid_size): ...   (rows r, r+1, ..., n-1)
RECURSIVE AcrossFrom(_, _, _)
AcrossFrom(m, n, r) ==
    IF r >= n THEN <<>> ELSE AcrossRow(m, n, r, 0) \o AcrossFrom(m, n, r + 1)

\* for c in range(grid_size): ...   (columns c, c+1, ..., n-1)
RECURSIVE DownFrom(_, _, _)
DownFrom(m, n, c) ==
    IF c >= n THEN <<>> ELSE DownCol(m, n, 0, c) \o DownFrom(m, n, c + 1)

\* slots_from_mask of the 6x6 generator: across slots, then down slots.
slots_from_mask(mask_in) ==
    LET n == GridSizeOf(mask_in)
    IN  AcrossFrom(mask_in, n, 0) \o DownFrom(mask_in, n, 0)

\* build_slots of the 5x5 generator: one pass, no pruning.  Its two loops are
\* the same text as slots_from_mask.
build_slots_5x5(p) ==
    LET m == MaskOf(p)
        n == GridSizeOf(p)
    IN  [mask |-> m, slots |-> AcrossFrom(m, n, 0) \o DownFrom(m, n, 0)]

\* Step 2 of build_slots (6x6): the cells used by at least one initial slot.
UsedCells(initial_slots) ==
    UNION { SlotCells(initial_slots[k]) : k \in 1 .. Len(initial_slots) }

\* Mutant: orphan cells are left white.
MutPruneOrphans(m, used) == m

\* Step 3 of build_slots (6x6): a white cell used by no slot becomes black.
\* The loops visit the cells with r, c < grid_size only.
PruneOrphans(m, used) ==
    LET grid_size == GridSizeOf(m)
    IN  [r \in DOMAIN m |-> [c \in DOMAIN m[r] |->
            m[r][c] /\ (c >= grid_size \/ <<r, c>> \in used)]]

\* Mutant: the slots of the first pass are returned with the cleaned mask.
MutBuildSlotsStale(p) ==
    LET raw == MaskOf(p)
        initial_slots == slots_from_mask(raw)
        cleaned == PruneOrphans(raw, UsedCells(initial_slots))
    IN  [mask |-> cleaned, slots |-> initial_slots]

\* build_slots of the 6x6 generator: extract, prune orphans, extract again.
build_slots_6x6(p) ==
    LET raw == MaskOf(p)
        initial_slots == slots_from_mask(raw)
        cleaned == PruneOrphans(raw, UsedCells(initial_slots))
    IN  [mask |-> cleaned, slots |-> slots_from_mask(cleaned)]

\* ---------------------------------------- backtracking generator: extraction
\* Across pass of build_slots_from_pattern: every maximal run is appended.
RECURSIVE AcrossRowAll(_, _, _, _)
AcrossRowAll(m, n, r, c) ==
    IF c >= n THEN <<>>
    ELSE IF m[r][c] /\ (c = 0 \/ ~m[r][c - 1])
         THEN LET e == RunEndAcross(m, n, r, c)
                  length == e - c
              IN  <<Slot("across", r, c, length)>> \o AcrossRowAll(m, n, r, e)
         ELSE AcrossRowAll(m, n, r, c + 1)

\* Down pass of build_slots_from_pattern: every maximal run is appended.
RECURSIVE DownColAll(_, _, _, _)
DownColAll(m, n, r, c) ==
    IF r >= n THEN <<>>
    ELSE IF m[r][c] /\ (r = 0 \/ ~m[r - 1][c])
         THEN LET e == RunEndDown(m, n, r, c)
                  length == e - r
              IN  <<Slot("down", r, c, length)>> \o DownColAll(m, n, e, c)
         ELSE DownColAll(m, n, r + 1, c)

RECURSIVE AcrossAllFrom(_, _, _)
AcrossAllFrom(m, n, r) ==
    IF r >= n THEN <<>> ELSE AcrossRowAll(m, n, r, 0) \o AcrossAllFrom(m, n, r + 1)

RECURSIVE DownAllFrom(_, _, _)
DownAllFrom(m, n, c) ==
    IF c >= n THEN <<>> ELSE DownColAll(m, n, 0, c) \o DownAllFrom(m, n, c + 1)

\* build_slots_from_pattern of the backtracking generator.
build_slots_from_pattern(p) ==
    LET m == MaskOf(p)
        n == GridSizeOf(p)
    IN  [mask |-> m, slots |-> AcrossAllFrom(m, n, 0) \o DownAllFrom(m, n, 0)]

\* The extraction the running generator's main() calls.
build_slots(p) ==
    CASE variant = "retry5" -> build_slots_5x5(p)
      [] variant = "retry6" -> build_slots_6x6(p)
      [] variant = "backtrack" -> build_slots_from_pattern(p)

\* ------------------------------------------------------------------ numbering
\* start_map: key (row, col, dir) -> slot index; a later slot with the same
\* key overwrites an earlier one.  Indices are 1-based here.
InStartMap(sl, r, c, d) ==
    \E k \in 1 .. Len(sl) : sl[k].row = r /\ sl[k].col = c /\ sl[k].dir = d

StartMap(sl, r, c, d) ==
    CHOOSE k \in 1 .. Len(sl) :
        /\ sl[k].row = r /\ sl[k].col = c /\ sl[k].dir = d
        /\ \A j \in 1 .. Len(sl) :
              (sl[j].row = r /\ sl[j].col = c /\ sl[j].dir = d) => j <= k

\* slots[idx]["number"] = num, when `on` holds.
SetNumber(sl, on, r, c, d, num) ==
    IF on THEN [sl EXCEPT ![StartMap(sl, r, c, d)].number = num] ELSE sl

\* The double loop of assign_numbers (6x6) from cell k = r * grid_size + c on.
\* acc is [number_grid, slots, raised].
RECURSIVE NumberCells6(_, _, _, _)
NumberCells6(m, k, num, acc) ==
    LET n == GridSizeOf(m)
        r == k \div n
        c == k % n
    IN  IF k >= n * n THEN acc
        ELSE IF ~m[r][c] THEN NumberCells6(m, k + 1, num, acc)
        ELSE LET has_across == InStartMap(acc.slots, r, c, "across")
                 has_down == InStartMap(acc.slots, r, c, "down")
             IN  IF has_across \/ has_down
                 THEN NumberCells6(m, k + 1, num + 1,
                        [acc EXCEPT
                           !.number_grid[r][c] = num,
                           !.slots = SetNumber(SetNumber(@, has_across, r, c, "across", num),
                                               has_down, r, c, "down", num)])
                 ELSE NumberCells6(m, k + 1, num, acc)

\* Mutant: numbering starts at 0.
MutAssignNumbersFromZero(m, sl) ==
    NumberCells6(m, 0, 0,
        [number_grid |-> [r \in DOMAIN m |-> [c \in DOMAIN m |-> 0]],
         slots |-> sl, raised |-> FALSE])

\* assign_numbers of the 6x6 generator.
assign_numbers_6x6(m, sl) ==
    NumberCells6(m, 0, 1,
        [number_grid |-> [r \in DOMAIN m |-> [c \in DOMAIN m |-> 0]],
         slots |-> sl, raised |-> FALSE])

\* The double loop of assign_numbers (backtracking generator).  The start of
\* a run is read off the mask, and start_map[...] raises KeyError when the
\* slot list has no slot starting there.
RECURSIVE NumberCellsNyt(_, _, _, _)
NumberCellsNyt(m, k, num, acc) ==
    LET n == GridSizeOf(m)
        r == k \div n
        c == k % n
    IN  IF k >= n * n THEN acc
        ELSE IF ~m[r][c] THEN NumberCellsNyt(m, k + 1, num, acc)
        ELSE LET starts_across == (c = 0 \/ ~m[r][c - 1])
                 starts_down == (r = 0 \/ ~m[r - 1][c])
             IN  IF starts_across \/ starts_down
                 THEN IF \/ (starts_across /\ ~InStartMap(acc.slots, r, c, "across"))
                         \/ (starts_down /\ ~InStartMap(acc.slots, r, c, "down"))
                      THEN [acc EXCEPT !.raised = TRUE]
                      ELSE NumberCellsNyt(m, k + 1, num + 1,
                             [acc EXCEPT
                                !.number_grid[r][c] = num,
                                !.slots = SetNumber(SetNumber(@, starts_across, r, c, "across", num),
                                                    starts_down, r, c, "down", num)])
                 ELSE NumberCellsNyt(m, k + 1, num, acc)

\* assign_numbers of the backtracking generator.
assign_numbers_nyt(m, sl) ==
    NumberCellsNyt(m, 0, 1,
        [number_grid |-> [r \in DOMAIN m |-> [c \in DOMAIN m |-> 0]],
         slots |-> sl, raised |-> FALSE])

assign_numbers(m, sl) ==
    IF variant = "retry6" THEN assign_numbers_6x6(m, sl) ELSE assign_numbers_nyt(m, sl)

\* ------------------------------------------- extraction and numbering: steps
NoGrid == <<>>
NoResult == [mask |-> NoGrid, slots |-> <<>>]
\* Python None where a grid or a slot list is expected.
NoneGrid == <<>>
NoneSlots == <<>>
NoReturn == [success |-> FALSE, grid |-> NoneGrid, slots |-> NoneSlots]

\* The fill engine's variables before fill_crossword is called.
FillIdle ==
    /\ words_by_length = <<>>
    /\ max_restarts = 0
    /\ max_attempts_per_slot = 0
    /\ grid = NoGrid
    /\ slots_copy = <<>>
    /\ attempt = 0
    /\ order = <<>>
    /\ pos = 0
    /\ word = NoWord
    /\ tries = 0
    /\ ok = TRUE
    /\ stack = <<>>
    /\ idx = 0
    /\ retval = FALSE
    /\ ret = NoReturn
    /\ rejected = 0
    /\ empty_seen = FALSE

\* No transform has been applied: the pattern is the base pattern itself.
PatIdle ==
    /\ base_pattern = pattern
    /\ applied = <<>>
    /\ arg = NoGrid

\* The word-guessing window (main.py) is not part of a generator's run.
AppIdle ==
    /\ current_word = NoWord
    /\ word_var = <<>>
    /\ clue_var = ""
    /\ status = ""
    /\ workers = <<>>

\* The free-placement generator (mini_crossword_grid.py) is a program of its
\* own; it is not part of the other programs' runs.
GenIdle ==
    /\ GRID_SIZE = 0
    /\ NUM_WORDS = 0
    /\ max_attempts = 0
    /\ words_pool = <<>>
    /\ words_info = <<>>
    /\ number_counter = 1
    /\ placed_words = 0
    /\ attempts = 0
    /\ used_words = {}
    /\ definition_cache = <<>>

InitSlots ==
    /\ variant \in Variants
    /\ WORD_MIN \in 1 .. MaxGrid
    /\ WORD_MAX \in WORD_MIN .. MaxGrid
    /\ pattern \in Patterns(MaxGrid)
    /\ mask = NoGrid
    /\ slots = <<>>
    /\ number_grid = NoGrid
    /\ first = NoResult
    /\ pc = "main"
    /\ PatIdle
    /\ AppIdle
    /\ GenIdle
    /\ FillIdle

\* mask, slots = build_slots(pattern)
BuildSlots ==
    /\ pc = "main"
    /\ LET res == build_slots(pattern)
       IN  /\ mask' = res.mask
           /\ slots' = res.slots
    /\ pc' = "built"
    /\ UNCHANGED <<variant, WORD_MIN, WORD_MAX, pattern, number_grid, first, patVars, appVars, genVars,
                 fillVars>>

\* Extraction run again on the pattern that corresponds to the returned mask.
Reextract ==
    /\ pc = "built"
    /\ first' = [mask |-> mask, slots |-> slots]
    /\ LET res == build_slots(PatternOf(mask))
       IN  /\ mask' = res.mask
           /\ slots' = res.slots
    /\ pc' = "rebuilt"
    /\ UNCHANGED <<variant, WORD_MIN, WORD_MAX, pattern, number_grid, patVars, appVars, genVars, fillVars>>

\* number_grid, slots = assign_numbers(mask, slots)   (6x6 and backtracking
\* generators; the 5x5 generator does not number its slots)
AssignNumbers ==
    /\ pc = "built"
    /\ variant \in {"retry6", "backtrack"}
    /\ LET res == assign_numbers(mask, slots)
       IN  IF res.raised
           THEN /\ pc' = "raised"
                /\ UNCHANGED <<slots, number_grid>>
           ELSE /\ number_grid' = res.number_grid
                /\ slots' = res.slots
                /\ pc' = "numbered"
    /\ UNCHANGED <<variant, WORD_MIN, WORD_MAX, pattern, mask, first, patVars, appVars, genVars, fillVars>>

NextSlots == BuildSlots \/ Reextract \/ AssignNumbers

SpecSlots == InitSlots /\ [][NextSlots]_vars

\* ------------------------------------------- pattern transforms (6x6 generator)
\* Longest run of transforms applied to one base pattern.
MaxApplied == 4

\* Mutant: pattern[-r][c] is read instead of pattern[n - 1 - r][c].
MutRotateNegativeIndex(p) ==
    LET n == GridSizeOf(p)
    IN  [c \in Idx(n) |-> [r \in Idx(n) |-> p[(n - r) % n][c]]]

\* rotate_clockwise(pattern): row c of the result reads column c of the
\* pattern from the bottom row up.
rotate_clockwise(p) ==
    LET n == GridSizeOf(p)
    IN  [c \in Idx(n) |-> [r \in Idx(n) |-> p[n - 1 - r][c]]]

\* Mutant: the row is shifted by one place instead of reversed.
MutFlipHorizontalShift(p) ==
    [r \in DOMAIN p |-> [c \in DOMAIN p[r] |-> p[r][(c + 1) % Cardinality(DOMAIN p[r])]]]

\* flip_horizontal(pattern): [row[::-1] for row in pattern]
flip_horizontal(p) ==
    [r \in DOMAIN p |-> [c \in DOMAIN p[r] |-> p[r][Cardinality(DOMAIN p[r]) - 1 - c]]]

\* flip_vertical(pattern): list(reversed(pattern))
flip_vertical(p) ==
    [r \in DOMAIN p |-> p[GridSizeOf(p) - 1 - r]]

\* for _ in range(k): p = rotate_clockwise(p)
RECURSIVE Rotated(_, _)
Rotated(p, k) == IF k = 0 THEN p ELSE Rotated(rotate_clockwise(p), k - 1)

\* random_pattern(base_pattern) when random.randint(0, 3) returns k and the
\* two random.random() draws decide the flips fh and fv.
random_pattern(base, k, fh, fv) ==
    LET p1 == Rotated(base, k)
        p2 == IF fh THEN flip_horizontal(p1) ELSE p1
    IN  IF fv THEN flip_vertical(p2) ELSE p2

\* The patterns the transforms are run on.
TransformPatterns ==
    { p \in Patterns(MaxGrid) :
        Cardinality({ rc \in Idx(MaxGrid) \X Idx(MaxGrid) : p[rc[1]][rc[2]] = "#" })
            <= MaxBlack - 1 }

\* The transform t has been applied n times in a row and nothing else.
Only(t) == \A i \in 1 .. Len(applied) : applied[i] = t

InitPattern ==
    /\ variant = "retry6"
    /\ WORD_MIN \in 1 .. MaxGrid
    /\ WORD_MAX \in WORD_MIN .. MaxGrid
    /\ pattern \in TransformPatterns
    /\ mask = NoGrid
    /\ slots = <<>>
    /\ number_grid = NoGrid
    /\ first = NoResult
    /\ pc = "main"
    /\ PatIdle
    /\ AppIdle
    /\ GenIdle
    /\ FillIdle

\* p = rotate_clockwise(p): a new list is built, the argument is only read.
RotateClockwise ==
    /\ pc = "main"
    /\ Len(applied) < MaxApplied /\ Only("rotate_clockwise")
    /\ pattern' = rotate_clockwise(pattern)
    /\ arg' = pattern
    /\ applied' = Append(applied, "rotate_clockwise")
    /\ UNCHANGED <<variant, WORD_MIN, WORD_MAX, mask, number_grid, first, base_pattern,
                   appVars, genVars, slots, pc, fillVars>>

\* p = flip_horizontal(p): a new list of new strings.
FlipHorizontal ==
    /\ pc = "main"
    /\ Len(applied) < MaxApplied /\ Only("flip_horizontal")
    /\ pattern' = flip_horizontal(pattern)
    /\ arg' = pattern
    /\ applied' = Append(applied, "flip_horizontal")
    /\ UNCHANGED <<variant, WORD_MIN, WORD_MAX, mask, number_grid, first, base_pattern,
                   appVars, genVars, slots, pc, fillVars>>

\* p = flip_vertical(p): a new list of the same (immutable) row strings.
FlipVertical ==
    /\ pc = "main"
    /\ Len(applied) < MaxApplied /\ Only("flip_vertical")
    /\ pattern' = flip_vertical(pattern)
    /\ arg' = pattern
    /\ applied' = Append(applied, "flip_vertical")
    /\ UNCHANGED <<variant, WORD_MIN, WORD_MAX, mask, number_grid, first, base_pattern,
                   appVars, genVars, slots, pc, fillVars>>

\* pattern = random_pattern(BASE_PATTERN): works on the copy p = list(base_pattern).
RandomPattern ==
    /\ pc = "main"
    /\ applied = <<>>
    /\ \E k \in 0 .. 3, fh \in BOOLEAN, fv \in BOOLEAN :
          pattern' = random_pattern(pattern, k, fh, fv)
    /\ arg' = pattern
    /\ applied' = <<"random_pattern">>
    /\ UNCHANGED <<variant, WORD_MIN, WORD_MAX, mask, number_grid, first, base_pattern,
                   appVars, genVars, slots, pc, fillVars>>

\* mask, slots = build_slots(pattern) on a pattern one transform produced.
BuildTransformed ==
    /\ Len(applied) = 1
    /\ BuildSlots

NextPattern ==
    \/ RotateClockwise
    \/ FlipHorizontal
    \/ FlipVertical
    \/ RandomPattern
    \/ BuildTransformed

SpecPattern == InitPattern /\ [][NextPattern]_vars

\* ------------------------------------------------------------------- lexicon
\* Largest max_restarts and max_attempts_per_slot handed to fill_crossword.
MaxRestarts == 2
MaxAttempts == 2

\* by_len.setdefault(len(w), []).append(w) for every word of the list: the
\* keys are the lengths that occur, each bucket keeps the list's order.
build_wordlists(words) ==
    [L \in { Len(words[k]) : k \in 1 .. Len(words) } |->
        SelectSeq(words, LAMBDA w : Len(w) = L)]

\* words_by_length.get(L, [])
BucketGet(L) == IF L \in DOMAIN words_by_length THEN words_by_length[L] ELSE <<>>

\* The values random.choice(candidates) can return.
Choices(candidates) == { candidates[k] : k \in 1 .. Len(candidates) }

\* The orders random.shuffle can leave a list of n indices in.
ShuffleOrders(n) ==
    { p \in [1 .. n -> 1 .. n] : \A i, j \in 1 .. n : p[i] = p[j] => i = j }

\* Rows written as tuples of tuples, turned into a pattern.
Pat(rows) == [r \in Idx(Len(rows)) |-> [c \in Idx(Len(rows[r + 1])) |-> rows[r + 1][c + 1]]]

\* The puzzles handed to the fill engines: pattern and slot length range.
FillPuzzles ==
    { [pattern |-> Pat(<< <<".", ".">>, <<".", ".">> >>), min |-> 2, max |-> 2],
      [pattern |-> Pat(<< <<".", ".">>, <<".", "#">> >>), min |-> 2, max |-> 2],
      [pattern |-> Pat(<< <<"#", ".">>, <<".", "#">> >>), min |-> 2, max |-> 2],
      [pattern |-> Pat(<< <<".", ".", ".">>, <<".", "#", "#">>, <<".", "#", "#">> >>),
       min |-> 3, max |-> 3],
      [pattern |-> Pat(<< <<".", ".", ".">> >>), min |-> 3, max |-> 3] }

\* The word lists the lexicon is built from.
WordLists ==
    { <<>>,
      << <<"a", "b">> >>,
      << <<"a", "b">>, <<"b", "a">> >>,
      << <<"a", "a">>, <<"a", "b">>, <<"b", "b">> >>,
      << <<"a">>, <<"b">> >>,
      << <<"a">>, <<"a", "b">>, <<"b", "a">> >>,
      << <<"a">>, <<"b">>, <<"a", "b", "a">>, <<"b", "a", "b">> >>,
      << <<"a", "b", "a">>, <<"b", "a", "b">>, <<"a", "a", "b">> >>,
      << <<"c", "a", "t">> >> }

\* ------------------------------------------------- randomized retry: helpers
\* make_blank() / blank(): a grid_size x grid_size grid, None on black cells,
\* "" on white cells.
make_blank(m) ==
    LET grid_size == GridSizeOf(m)
    IN  [r \in Idx(grid_size) |-> [c \in Idx(grid_size) |-> IF ~m[r][c] THEN None ELSE ""]]

\* Mutant: the crossing check is skipped.
MutFitsRetryAlways(g, slot, w) == TRUE

\* fits(grid, slot, word) of the randomized-retry engines.
fits_retry(g, slot, w) ==
    \A i \in Idx(Len(w)) :
        g[CellRow(slot, i)][CellCol(slot, i)] \in {"", None, w[i + 1]}

\* Mutant: the last letter of the word is not written.
MutPlaceRetryDropsLast(g, slot, w) ==
    [r \in DOMAIN g |-> [c \in DOMAIN g[r] |->
        IF \E i \in Idx(Len(w) - 1) : CellRow(slot, i) = r /\ CellCol(slot, i) = c
        THEN w[(CHOOSE i \in Idx(Len(w) - 1) : CellRow(slot, i) = r /\ CellCol(slot, i) = c) + 1]
        ELSE g[r][c]]]

\* The grid after place(grid, slot, word): every letter of the word is written.
place_retry(g, slot, w) ==
    [r \in DOMAIN g |-> [c \in DOMAIN g[r] |->
        IF \E i \in Idx(Len(w)) : CellRow(slot, i) = r /\ CellCol(slot, i) = c
        THEN w[(CHOOSE i \in Idx(Len(w)) : CellRow(slot, i) = r /\ CellCol(slot, i) = c) + 1]
        ELSE g[r][c]]]

\* s.pop("word", None) for every slot of the list.
PopWords(sl) == [k \in 1 .. Len(sl) |-> [sl[k] EXCEPT !.word = NoWord]]

\* The slot records the retry engine works on: the caller's dicts (5x5, whose
\* shuffled list is a shallow copy) or the dicts of slots_copy (6x6).
WorkSlots == IF variant = "retry5" THEN slots ELSE slots_copy

\* The slot being filled.
CurrentSlot == WorkSlots[order[pos]]

\* The list the 5x5 engine returns: the caller's dicts in shuffled order.
Shuffled == [i \in 1 .. Len(order) |-> slots[order[i]]]

InBody == pc \in {"for_slot", "while", "give_up", "end_restart"}

\* --------------------------------------------------- randomized retry: steps
\* Mutant: the restart loop runs once more than max_restarts allows.
MutBeginRestartOffByOne ==
    /\ pc = "for_attempt"
    /\ attempt <= max_restarts
    /\ attempt < MaxRestarts + 1
    /\ grid' = make_blank(mask)
    /\ slots_copy' = IF variant = "retry6" THEN PopWords(slots_copy) ELSE slots_copy
    /\ order' \in ShuffleOrders(Len(slots))
    /\ ok' = TRUE
    /\ pos' = 1
    /\ pc' = "for_slot"
    /\ UNCHANGED <<slotVars, patVars, appVars, genVars, slots, words_by_length, max_restarts, max_attempts_per_slot,
                   attempt, word, tries, stack, idx, retval, ret, rejected, empty_seen>>

\* Mutant: the blank grid is made once, before the first restart only.
MutBeginRestartKeepsGrid ==
    /\ pc = "for_attempt"
    /\ attempt < max_restarts
    /\ grid' = IF grid = NoGrid THEN make_blank(mask) ELSE grid
    /\ slots_copy' = IF variant = "retry6" THEN PopWords(slots_copy) ELSE slots_copy
    /\ order' \in ShuffleOrders(Len(slots))
    /\ ok' = TRUE
    /\ pos' = 1
    /\ pc' = "for_slot"
    /\ UNCHANGED <<slotVars, patVars, appVars, genVars, slots, words_by_length, max_restarts,
                   max_attempts_per_slot, attempt, word, tries, stack, idx, retval, ret,
                   rejected, empty_seen>>

\* for attempt in range(max_restarts): a restart begins with a blank grid and
\* a freshly shuffled order (6x6: the words of slots_copy are popped).
BeginRestart ==
    /\ pc = "for_attempt"
    /\ attempt < max_restarts
    /\ grid' = make_blank(mask)
    /\ slots_copy' = IF variant = "retry6" THEN PopWords(slots_copy) ELSE slots_copy
    /\ order' \in ShuffleOrders(Len(slots))
    /\ ok' = TRUE
    /\ pos' = 1
    /\ pc' = "for_slot"
    /\ UNCHANGED <<slotVars, patVars, appVars, genVars, slots, words_by_length, max_restarts, max_attempts_per_slot,
                   attempt, word, tries, stack, idx, retval, ret, rejected, empty_seen>>

\* The range is exhausted: return False, None, None (5x5) / slots_copy (6x6).
ReturnFailure ==
    /\ pc = "for_attempt"
    /\ attempt >= max_restarts
    /\ ret' = [success |-> FALSE, grid |-> NoneGrid,
               slots |-> IF variant = "retry6" THEN slots_copy ELSE NoneSlots]
    /\ pc' = "done"
    /\ UNCHANGED <<slotVars, patVars, appVars, genVars, slots, words_by_length, max_restarts, max_attempts_per_slot,
                   grid, slots_copy, attempt, order, pos, word, tries, ok, stack, idx,
                   retval, rejected, empty_seen>>

\* Every slot of the order is placed and ok is still True: return True.
ReturnSuccess ==
    /\ pc = "for_slot"
    /\ pos > Len(order)
    /\ ret' = [success |-> TRUE, grid |-> grid,
               slots |-> IF variant = "retry6" THEN slots_copy ELSE Shuffled]
    /\ pc' = "done"
    /\ UNCHANGED <<slotVars, patVars, appVars, genVars, slots, words_by_length, max_restarts, max_attempts_per_slot,
                   grid, slots_copy, attempt, order, pos, word, tries, ok, stack, idx,
                   retval, rejected, empty_seen>>

\* The head of the slot loop: look the bucket up and draw the first word.
\* 5x5: words_by_length[L] raises KeyError when the key is missing (and
\* random.choice raises IndexError on an empty bucket).
\* 6x6: an empty or missing bucket sets ok = False and leaves the slot loop.
NextSlot ==
    /\ pc = "for_slot"
    /\ pos <= Len(order)
    /\ LET L == CurrentSlot.length
       IN  IF variant = "retry5" /\ BucketGet(L) = <<>>
           THEN /\ pc' = "raised"
                /\ empty_seen' = TRUE
                /\ UNCHANGED <<ok, word, tries, rejected>>
           ELSE IF BucketGet(L) = <<>>
           THEN /\ ok' = FALSE
                /\ pc' = "end_restart"
                /\ empty_seen' = TRUE
                /\ UNCHANGED <<word, tries, rejected>>
           ELSE /\ tries' = 0
                /\ word' \in Choices(BucketGet(L))
                /\ rejected' = 0
                /\ pc' = "while"
                /\ UNCHANGED <<ok, empty_seen>>
    /\ UNCHANGED <<slotVars, patVars, appVars, genVars, slots, words_by_length, max_restarts, max_attempts_per_slot,
                   grid, slots_copy, attempt, order, pos, stack, idx, retval, ret>>

\* Mutant: slots_copy shares its dicts with the caller's list (slots[:]
\* instead of [dict(s) for s in slots]), so place writes to both.
MutPlaceWordShared ==
    /\ pc = "while"
    /\ fits_retry(grid, CurrentSlot, word)
    /\ grid' = place_retry(grid, CurrentSlot, word)
    /\ slots' = [slots EXCEPT ![order[pos]].word = word]
    /\ slots_copy' = IF variant = "retry5" THEN slots_copy
                     ELSE [slots_copy EXCEPT ![order[pos]].word = word]
    /\ pos' = pos + 1
    /\ pc' = "for_slot"
    /\ UNCHANGED <<slotVars, patVars, appVars, genVars, words_by_length, max_restarts,
                   max_attempts_per_slot, attempt, order, word, tries, ok, stack, idx,
                   retval, ret, rejected, empty_seen>>

\* The while loop's test succeeds: place(grid, slot, word), on to the next slot.
PlaceWord ==
    /\ pc = "while"
    /\ fits_retry(grid, CurrentSlot, word)
    /\ grid' = place_retry(grid, CurrentSlot, word)
    /\ IF variant = "retry5"
       THEN /\ slots' = [slots EXCEPT ![order[pos]].word = word]
            /\ UNCHANGED slots_copy
       ELSE /\ slots_copy' = [slots_copy EXCEPT ![order[pos]].word = word]
            /\ UNCHANGED slots
    /\ pos' = pos + 1
    /\ pc' = "for_slot"
    /\ UNCHANGED <<slotVars, patVars, appVars, genVars, words_by_length, max_restarts, max_attempts_per_slot,
                   attempt, order, word, tries, ok, stack, idx, retval, ret,
                   rejected, empty_seen>>

\* The while loop's test fails: draw again, count, give up when
\* tries > max_attempts_per_slot.
Redraw ==
    /\ pc = "while"
    /\ ~fits_retry(grid, CurrentSlot, word)
    /\ rejected' = rejected + 1
    /\ word' \in Choices(BucketGet(CurrentSlot.length))
    /\ tries' = tries + 1
    /\ IF tries' > max_attempts_per_slot
       THEN ok' = FALSE /\ pc' = "give_up"
       ELSE ok' = ok /\ pc' = "while"
    /\ UNCHANGED <<slotVars, patVars, appVars, genVars, slots, words_by_length, max_restarts, max_attempts_per_slot,
                   grid, slots_copy, attempt, order, pos, stack, idx, retval, ret,
                   empty_seen>>

\* "if not ok: break" and "if ok:" fall through: the restart is abandoned.
EndRestart ==
    /\ pc \in {"give_up", "end_restart"}
    /\ attempt' = attempt + 1
    /\ pc' = "for_attempt"
    /\ UNCHANGED <<slotVars, patVars, appVars, genVars, slots, words_by_length, max_restarts, max_attempts_per_slot,
                   grid, slots_copy, order, pos, word, tries, ok, stack, idx, retval, ret,
                   rejected, empty_seen>>

RetryNext ==
    \/ BeginRestart
    \/ ReturnFailure
    \/ ReturnSuccess
    \/ NextSlot
    \/ PlaceWord
    \/ Redraw
    \/ EndRestart

\* ------------------------------------------------------ backtracking: helpers
\* fits(slot, word) of the backtracking engine.
fits_bt(g, slot, w) ==
    \A i \in Idx(Len(w)) :
        g[CellRow(slot, i)][CellCol(slot, i)] \in {"", w[i + 1]}

\* Mutant: every cell of the slot is appended to changed.
MutChangedAllCells(g, slot, w) ==
    { <<CellRow(slot, i), CellCol(slot, i)>> : i \in Idx(Len(w)) }

\* The cells place(slot, word) appends to changed: those that were "".
changed_bt(g, slot, w) ==
    { <<CellRow(slot, i), CellCol(slot, i)>> : i \in
        { j \in Idx(Len(w)) : g[CellRow(slot, j)][CellCol(slot, j)] = "" } }

\* The grid after place(slot, word): only cells that were "" are written.
place_bt(g, slot, w) ==
    [r \in DOMAIN g |-> [c \in DOMAIN g[r] |->
        IF \E i \in Idx(Len(w)) :
              CellRow(slot, i) = r /\ CellCol(slot, i) = c /\ g[r][c] = ""
        THEN w[(CHOOSE i \in Idx(Len(w)) : CellRow(slot, i) = r /\ CellCol(slot, i) = c) + 1]
        ELSE g[r][c]]]

\* Mutant: unplace leaves the letters in the grid.
MutUnplaceKeeps(g, changed) == g

\* The grid after unplace(changed, slot): the changed cells are "" again.
unplace_bt(g, changed) ==
    [r \in DOMAIN g |-> [c \in DOMAIN g[r] |->
        IF <<r, c>> \in changed THEN "" ELSE g[r][c]]]

\* order = sorted(range(slot_count), key=lambda i: slots[i]["length"]):
\* a stable sort, so equal lengths keep their list order.
SortedByLength(sl) ==
    CHOOSE p \in ShuffleOrders(Len(sl)) :
        \A i, j \in 1 .. Len(sl) :
            i < j => \/ sl[p[i]].length < sl[p[j]].length
                     \/ (sl[p[i]].length = sl[p[j]].length /\ p[i] < p[j])

\* known[i]: the letter already in the slot's i-th cell, or None.
Known(g, slot, i) ==
    LET cell == g[CellRow(slot, i)][CellCol(slot, i)]
    IN  IF cell \notin {"", None} THEN cell ELSE None

\* Mutant: a word that another slot already holds is filtered out.
MutFilteredUnused(g, slot, candidates) ==
    SelectSeq(candidates, LAMBDA w :
        /\ \A i \in Idx(slot.length) : Known(g, slot, i) = None \/ Known(g, slot, i) = w[i + 1]
        /\ \A k \in 1 .. Len(slots) : slots[k].word # w)

\* filtered: the candidates that agree with every known letter.
Filtered(g, slot, candidates) ==
    SelectSeq(candidates, LAMBDA w :
        \A i \in Idx(slot.length) : Known(g, slot, i) = None \/ Known(g, slot, i) = w[i + 1])

\* The lists random.shuffle(filtered) can leave.
Shuffles(list) ==
    { [i \in 1 .. Len(list) |-> list[p[i]]] : p \in ShuffleOrders(Len(list)) }

\* Mutant: the slice stops one candidate early.
MutPrefixShort(list, k) == SubSeq(list, 1, IF k - 1 < Len(list) THEN k - 1 ELSE Len(list))

\* filtered[:max_attempts_per_slot]
Prefix(list, k) == SubSeq(list, 1, IF k < Len(list) THEN k ELSE Len(list))

\* The "word" field of every slot of a list.
WordsOf(sl) == [k \in 1 .. Len(sl) |-> sl[k].word]

\* -------------------------------------------------------- backtracking: steps
\* Entry of backtrack(idx): success past the last slot, failure on an empty
\* bucket, else a new frame with the shuffled, truncated candidate list.  The
\* frame also keeps, as history, the grid and the slots' words at entry.
BtCall ==
    /\ pc = "bt_call"
    /\ IF idx = Len(slots)
       THEN /\ retval' = TRUE
            /\ pc' = "bt_ret"
            /\ UNCHANGED <<stack, empty_seen>>
       ELSE LET slot == slots[order[idx + 1]]
                candidates == BucketGet(slot.length)
            IN  IF candidates = <<>>
                THEN /\ retval' = FALSE
                     /\ pc' = "bt_ret"
                     /\ empty_seen' = TRUE
                     /\ UNCHANGED stack
                ELSE /\ \E sh \in Shuffles(Filtered(grid, slot, candidates)) :
                          stack' = Append(stack,
                              [idx |-> idx, cands |-> Prefix(sh, max_attempts_per_slot),
                               k |-> 1, changed |-> {},
                               grid0 |-> grid, words0 |-> WordsOf(slots)])
                     /\ pc' = "bt_for"
                     /\ UNCHANGED <<retval, empty_seen>>
    /\ UNCHANGED <<slotVars, patVars, appVars, genVars, slots, words_by_length, max_restarts, max_attempts_per_slot,
                   grid, slots_copy, attempt, order, pos, word, tries, ok, idx, ret,
                   rejected>>

\* One turn of "for w in filtered[:max_attempts_per_slot]" in the innermost
\* frame: the list is exhausted (return False), or the candidate fits (place
\* and call backtrack(idx + 1)), or it does not (next candidate).
BtFor ==
    /\ pc = "bt_for"
    /\ LET top == stack[Len(stack)]
           slot == slots[order[top.idx + 1]]
       IN  IF top.k > Len(top.cands)
           THEN /\ retval' = FALSE
                /\ stack' = SubSeq(stack, 1, Len(stack) - 1)
                /\ pc' = "bt_ret"
                /\ UNCHANGED <<grid, slots, idx>>
           ELSE IF fits_bt(grid, slot, top.cands[top.k])
           THEN /\ grid' = place_bt(grid, slot, top.cands[top.k])
                /\ slots' = [slots EXCEPT ![order[top.idx + 1]].word = top.cands[top.k]]
                /\ stack' = [stack EXCEPT ![Len(stack)].changed =
                                changed_bt(grid, slot, top.cands[top.k])]
                /\ idx' = top.idx + 1
                /\ pc' = "bt_call"
                /\ UNCHANGED retval
           ELSE /\ stack' = [stack EXCEPT ![Len(stack)].k = @ + 1]
                /\ UNCHANGED <<grid, slots, idx, retval, pc>>
    /\ UNCHANGED <<slotVars, patVars, appVars, genVars, words_by_length, max_restarts, max_attempts_per_slot,
                   slots_copy, attempt, order, pos, word, tries, ok, ret,
                   rejected, empty_seen>>

\* A backtrack() call has returned retval to its caller: fill_crossword itself
\* (return ok, grid, slots), or the frame below, which returns True in turn or
\* unplaces its candidate and moves to the next one.
BtReturn ==
    /\ pc = "bt_ret"
    /\ IF stack = <<>>
       THEN /\ ok' = retval
            /\ ret' = [success |-> retval, grid |-> grid, slots |-> slots]
            /\ pc' = "done"
            /\ UNCHANGED <<grid, slots, stack>>
       ELSE IF retval
       THEN /\ stack' = SubSeq(stack, 1, Len(stack) - 1)
            /\ UNCHANGED <<grid, slots, ok, ret, pc>>
       ELSE LET top == stack[Len(stack)]
            IN  /\ grid' = unplace_bt(grid, top.changed)
                /\ slots' = [slots EXCEPT ![order[top.idx + 1]].word = NoWord]
                /\ stack' = [stack EXCEPT ![Len(stack)].k = @ + 1,
                                          ![Len(stack)].changed = {}]
                /\ pc' = "bt_for"
                /\ UNCHANGED <<ok, ret>>
    /\ UNCHANGED <<slotVars, patVars, appVars, genVars, words_by_length, max_restarts, max_attempts_per_slot,
                   slots_copy, attempt, order, pos, word, tries, idx, retval,
                   rejected, empty_seen>>

BacktrackNext == BtCall \/ BtFor \/ BtReturn

\* ------------------------------------------------------- the fill engines
\* main() up to the call: extraction (and numbering, except in the 5x5
\* generator), then fill_crossword(mask, slots, words_by_length, ...) starts:
\* slots_copy = [dict(s) for s in slots] (6x6), the blank grid and the sorted
\* order (backtracking).
InitFill ==
    /\ variant \in Variants
    /\ \E puzzle \in FillPuzzles :
          /\ WORD_MIN = puzzle.min
          /\ WORD_MAX = puzzle.max
          /\ pattern = puzzle.pattern
    /\ mask = build_slots(pattern).mask
    /\ slots = IF variant = "retry5"
               THEN build_slots(pattern).slots
               ELSE assign_numbers(mask, build_slots(pattern).slots).slots
    /\ number_grid = IF variant = "retry5"
                     THEN NoGrid
                     ELSE assign_numbers(mask, build_slots(pattern).slots).number_grid
    /\ first = NoResult
    /\ PatIdle
    /\ AppIdle
    /\ GenIdle
    /\ \E words \in WordLists : words_by_length = build_wordlists(words)
    /\ max_restarts \in (IF variant = "backtrack" THEN {0} ELSE 0 .. MaxRestarts)
    /\ max_attempts_per_slot \in 0 .. MaxAttempts
    /\ grid = IF variant = "backtrack" THEN make_blank(mask) ELSE NoGrid
    /\ slots_copy = IF variant = "retry6" THEN slots ELSE <<>>
    /\ attempt = 0
    /\ order = IF variant = "backtrack" THEN SortedByLength(slots) ELSE <<>>
    /\ pos = 0
    /\ word = NoWord
    /\ tries = 0
    /\ ok = TRUE
    /\ stack = <<>>
    /\ idx = 0
    /\ retval = FALSE
    /\ ret = NoReturn
    /\ rejected = 0
    /\ empty_seen = FALSE
    /\ pc = IF variant = "backtrack" THEN "bt_call" ELSE "for_attempt"

NextFill == RetryNext \/ BacktrackNext

SpecFill == InitFill /\ [][NextFill]_vars

\* ------------------------------------------------ word-guessing window (main.py)
\* Texts are sequences of characters where the code takes them apart (the words
\* and the entry text) and strings where it only stores them (clue, status).
\* A Tk callback runs to completion on the main thread; a clue worker is a
\* thread that takes its three statements one at a time, in between.

\* Largest number of clue workers started in one run.
MaxWorkers == 2

\* self.words: the list MiniCrosswordApp is constructed with.
AppWordList == << <<"a", "b", "b", "a">>, <<"b", "a", "b", "a", "b">> >>

\* What the user can leave in the entry by typing.
TypedTexts ==
    { <<"a", "b", "b", "a">>,
      <<"A", "b", "_", "b", "a", " ">>,
      <<"b", "a", "b", "a", "b">>,
      <<"a", "b", "1", "b">> }

\* "_ " * n
Blank(n) == [i \in 1 .. 2 * n |-> IF i % 2 = 1 THEN "_" ELSE " "]

\* str.lower() and str.isalpha() on one character.
Lower(ch) == CASE ch = "A" -> "a" [] ch = "B" -> "b" [] OTHER -> ch
IsAlpha(ch) == ch \in {"a", "b", "A", "B"}

\* typed = entry.get().replace(" ", "").replace("_", "").lower()
\* cleaned = "".join(ch for ch in typed if ch.isalpha())
RECURSIVE Cleaned(_)
Cleaned(text) ==
    IF text = <<>> THEN <<>>
    ELSE LET ch == Lower(Head(text))
         IN  (IF Head(text) \notin {" ", "_"} /\ IsAlpha(ch) THEN <<ch>> ELSE <<>>)
                 \o Cleaned(Tail(text))

\* f"Incorrect (Answer length {len(self.current_word)})"
IncorrectText(n) ==
    CASE n = 4 -> "Incorrect (Answer length 4)"
      [] n = 5 -> "Incorrect (Answer length 5)"
      [] OTHER -> "Incorrect (Answer length n)"

\* The first definition the dictionary service lists for a word.
DefinitionOf(w) ==
    CASE w = <<"a", "b", "b", "a">> -> "definition of abba"
      [] w = <<"b", "a", "b", "a", "b">> -> "definition of babab"
      [] OTHER -> "definition"

\* What fetch_definition(word) can return: the definition, or one of its two
\* fallback texts.
FetchResults(w) ==
    { DefinitionOf(w), "No definition found.", "Error fetching definition: e" }

\* __init__: no current word, empty entry, the opening clue, an empty green
\* status label, no worker.
InitApp ==
    /\ variant = None
    /\ WORD_MIN = 4
    /\ WORD_MAX = 6
    /\ pattern = NoGrid
    /\ mask = NoGrid
    /\ slots = <<>>
    /\ number_grid = NoGrid
    /\ first = NoResult
    /\ pc = "mainloop"
    /\ PatIdle
    /\ GenIdle
    /\ FillIdle
    /\ current_word = NoWord
    /\ word_var = <<>>
    /\ clue_var = "Click 'New' to generate a word."
    /\ status = [text |-> "", fg |-> "green"]
    /\ workers = <<>>

\* new_word()
NewWord ==
    /\ pc = "mainloop"
    /\ current_word' \in Choices(AppWordList)
    /\ word_var' = Blank(Len(current_word'))
    /\ clue_var' = "Click 'Show clue' to get a definition."
    /\ status' = [status EXCEPT !.text = ""]
    /\ UNCHANGED <<slotVars, patVars, genVars, workers, slots, pc, fillVars>>

\* show_clue(): without a current word the message-box call ends the callback
\* and nothing changes; otherwise a worker thread is started.
ShowClue ==
    /\ pc = "mainloop"
    /\ IF current_word = NoWord
       THEN UNCHANGED workers
       ELSE /\ Len(workers) < MaxWorkers
            /\ workers' = Append(workers, [pc |-> "start", s |-> ""])
    /\ UNCHANGED <<slotVars, patVars, genVars, current_word, word_var, clue_var, status, slots, pc,
                   fillVars>>

\* check()
Check ==
    /\ pc = "mainloop"
    /\ IF current_word = NoWord
       THEN UNCHANGED status
       ELSE status' = IF Cleaned(word_var) = current_word
                      THEN [text |-> "Correct!", fg |-> "green"]
                      ELSE [text |-> IncorrectText(Len(current_word)), fg |-> "red"]
    /\ UNCHANGED <<slotVars, patVars, genVars, current_word, word_var, clue_var, workers, slots, pc,
                   fillVars>>

\* The user types into the entry, which is bound to word_var.
Type ==
    /\ pc = "mainloop"
    /\ word_var' \in TypedTexts
    /\ UNCHANGED <<slotVars, patVars, genVars, current_word, clue_var, status, workers, slots, pc,
                   fillVars>>

\* Mutant: the progress text is written to the status label.
MutWorkerFetchingToStatus(i) ==
    /\ i \in 1 .. Len(workers)
    /\ workers[i].pc = "start"
    /\ status' = [status EXCEPT !.text = "Fetching definition..."]
    /\ workers' = [workers EXCEPT ![i].pc = "fetch"]
    /\ UNCHANGED <<slotVars, patVars, genVars, current_word, word_var, clue_var, slots, pc, fillVars>>

\* worker: self.clue_var.set("Fetching definition...")
WorkerSetFetching(i) ==
    /\ i \in 1 .. Len(workers)
    /\ workers[i].pc = "start"
    /\ clue_var' = "Fetching definition..."
    /\ workers' = [workers EXCEPT ![i].pc = "fetch"]
    /\ UNCHANGED <<slotVars, patVars, genVars, current_word, word_var, status, slots, pc, fillVars>>

\* worker: s = fetch_definition(self.current_word); the word is read now.
WorkerFetch(i) ==
    /\ i \in 1 .. Len(workers)
    /\ workers[i].pc = "fetch"
    /\ \E s \in FetchResults(current_word) :
          workers' = [workers EXCEPT ![i].pc = "set", ![i].s = s]
    /\ UNCHANGED <<slotVars, patVars, genVars, current_word, word_var, clue_var, status, slots, pc,
                   fillVars>>

\* worker: self.clue_var.set(s)
WorkerSetClue(i) ==
    /\ i \in 1 .. Len(workers)
    /\ workers[i].pc = "set"
    /\ clue_var' = workers[i].s
    /\ workers' = [workers EXCEPT ![i].pc = "done"]
    /\ UNCHANGED <<slotVars, patVars, genVars, current_word, word_var, status, slots, pc, fillVars>>

WorkerNext ==
    \E i \in 1 .. MaxWorkers : WorkerSetFetching(i) \/ WorkerFetch(i) \/ WorkerSetClue(i)

NextApp == NewWord \/ ShowClue \/ Check \/ Type \/ WorkerNext

SpecApp == InitApp /\ [][NextApp]_vars

\* ==================================================== free-placement generator
\* mini_crossword_grid.py: words are dropped at random positions of an empty
\* grid (None in every cell) as long as they do not contradict a letter.
MaxGenGrid == 3
MaxWords == 2
MaxTries == 2

\* Word lists as load_words returns them: lower-case alphabetic words, in file
\* order, a word possibly listed twice.
GenPools ==
    { <<>>,
      << <<"a", "b">> >>,
      << <<"a", "b">>, <<"b", "a">> >>,
      << <<"a", "b">>, <<"a", "b">>, <<"b", "b">> >>,
      << <<"a", "b">>, <<"b", "a">>, <<"a", "b", "a">> >>,
      << <<"b", "a", "b">>, <<"a", "b">> >> }

\* What the dictionary service may answer for a word.
ApiDefinitions == {"a definition"}
NoClue == "No clue available"

\* dict[key] = value
Put(d, key, value) == [x \in (DOMAIN d) \cup {key} |-> IF x = key THEN value ELSE d[x]]

\* get_definition(word): the outcomes (returned clue, definition_cache after).
\* A cached word is answered from the cache; otherwise the request either
\* yields a definition, which is cached, or fails in any way, which gives
\* "No clue available" and leaves the cache alone.
get_definition(w) ==
    IF w \in DOMAIN definition_cache
    THEN { [clue |-> definition_cache[w], cache |-> definition_cache] }
    ELSE { [clue |-> d, cache |-> Put(definition_cache, w, d)] : d \in ApiDefinitions }
         \cup { [clue |-> NoClue, cache |-> definition_cache] }

\* can_place without the test of the cells: only the bounds are tested.
MutCanPlaceBoundsOnly(g, w, row, col, direction) ==
    IF direction = "across"
    THEN ~(col + Len(w) > GRID_SIZE)
    ELSE ~(row + Len(w) > GRID_SIZE)

\* can_place(word, row, col, direction) on the grid g.
can_place(g, w, row, col, direction) ==
    IF direction = "across"
    THEN IF col + Len(w) > GRID_SIZE
         THEN FALSE
         ELSE \A i \in Idx(Len(w)) : g[row][col + i] \in {None, w[i + 1]}
    ELSE IF row + Len(w) > GRID_SIZE
         THEN FALSE
         ELSE \A i \in Idx(Len(w)) : g[row + i][col] \in {None, w[i + 1]}

\* place_word(word, row, col, direction, clue): the globals after the call.
\* The start cell gets the next number unless it already has one; every
\* letter is written into the grid; the word's record is appended.
place_word(w, row, col, direction, clue) ==
    LET fresh == number_grid[row][col] = 0
        number == IF fresh THEN number_counter ELSE number_grid[row][col]
    IN  [ number_grid |-> IF fresh
                          THEN [number_grid EXCEPT ![row][col] = number_counter]
                          ELSE number_grid,
          number_counter |-> IF fresh THEN number_counter + 1 ELSE number_counter,
          grid |-> [r \in DOMAIN grid |-> [c \in DOMAIN grid[r] |->
                       IF direction = "across"
                       THEN IF r = row /\ col <= c /\ c < col + Len(w)
                            THEN w[c - col + 1] ELSE grid[r][c]
                       ELSE IF c = col /\ row <= r /\ r < row + Len(w)
                            THEN w[r - row + 1] ELSE grid[r][c]]],
          words_info |-> Append(words_info,
                                [word |-> w, row |-> row, col |-> col, dir |-> direction,
                                 number |-> number, clue |-> clue]) ]

\* The module has been loaded up to the call of generate_crossword(), whose
\* locals have been initialised: the word list is read, the grid holds None
\* everywhere, no cell is numbered.
InitGen ==
    /\ variant = None
    /\ GRID_SIZE \in 2 .. MaxGenGrid
    /\ WORD_MIN = 2
    /\ WORD_MAX = GRID_SIZE
    /\ NUM_WORDS \in 1 .. MaxWords
    /\ max_attempts \in 1 .. MaxTries
    /\ words_pool \in { pool \in GenPools :
                          \A k \in 1 .. Len(pool) :
                              WORD_MIN <= Len(pool[k]) /\ Len(pool[k]) <= WORD_MAX }
    /\ definition_cache = <<>>
    /\ grid = [r \in Idx(GRID_SIZE) |-> [c \in Idx(GRID_SIZE) |-> None]]
    /\ number_grid = [r \in Idx(GRID_SIZE) |-> [c \in Idx(GRID_SIZE) |-> 0]]
    /\ words_info = <<>>
    /\ number_counter = 1
    /\ placed_words = 0
    /\ attempts = 0
    /\ used_words = {}
    /\ pc = "gen_while"
    /\ pattern = NoGrid
    /\ mask = NoGrid
    /\ slots = <<>>
    /\ first = NoResult
    /\ PatIdle
    /\ AppIdle
    /\ words_by_length = <<>>
    /\ max_restarts = 0
    /\ max_attempts_per_slot = 0
    /\ slots_copy = <<>>
    /\ attempt = 0
    /\ order = <<>>
    /\ pos = 0
    /\ word = NoWord
    /\ tries = 0
    /\ ok = TRUE
    /\ stack = <<>>
    /\ idx = 0
    /\ retval = FALSE
    /\ ret = NoReturn
    /\ rejected = 0
    /\ empty_seen = FALSE

\* while placed_words < NUM_WORDS and attempts < max_attempts
LoopCondition == placed_words < NUM_WORDS /\ attempts < max_attempts

\* [w for w in words_pool if w not in used_words]
Unused == SelectSeq(words_pool, LAMBDA w : w \notin used_words)

\* One turn of the loop: a word, a direction and a start cell are drawn; the
\* word is placed, with its clue, if can_place allows it; the attempt counts
\* either way.
Attempt ==
    /\ pc = "gen_while"
    /\ LoopCondition
    /\ Unused # <<>>
    /\ \E w \in Choices(Unused), direction \in {"across", "down"},
          row \in Idx(GRID_SIZE), col \in Idx(GRID_SIZE) :
          IF can_place(grid, w, row, col, direction)
          THEN \E got \in get_definition(w) :
                  /\ definition_cache' = got.cache
                  /\ grid' = place_word(w, row, col, direction, got.clue).grid
                  /\ number_grid' = place_word(w, row, col, direction, got.clue).number_grid
                  /\ number_counter' = place_word(w, row, col, direction, got.clue).number_counter
                  /\ words_info' = place_word(w, row, col, direction, got.clue).words_info
                  /\ used_words' = used_words \cup {w}
                  /\ placed_words' = placed_words + 1
          ELSE UNCHANGED <<definition_cache, grid, number_grid, number_counter, words_info,
                           used_words, placed_words>>
    /\ attempts' = attempts + 1
    /\ UNCHANGED <<variant, WORD_MIN, WORD_MAX, pattern, mask, first, patVars, appVars,
                   GRID_SIZE, NUM_WORDS, max_attempts, words_pool, slots, pc,
                   words_by_length, max_restarts, max_attempts_per_slot, slots_copy,
                   attempt, order, pos, word, tries, ok, stack, idx, retval, ret,
                   rejected, empty_seen>>

\* A turn of the loop in which every word of the pool is used already:
\* random.choice of the empty list raises IndexError, which nothing catches.
ChoiceRaises ==
    /\ pc = "gen_while"
    /\ LoopCondition
    /\ Unused = <<>>
    /\ pc' = "raised"
    /\ UNCHANGED <<slotVars, patVars, appVars, genVars, slots, fillVars>>

\* The loop ends; the closing loop over the cells stores None where None is.
FinishGenerate ==
    /\ pc = "gen_while"
    /\ ~LoopCondition
    /\ grid' = [r \in DOMAIN grid |-> [c \in DOMAIN grid[r] |->
                   IF grid[r][c] = None THEN None ELSE grid[r][c]]]
    /\ pc' = "generated"
    /\ UNCHANGED <<slotVars, patVars, appVars, genVars, slots,
                   words_by_length, max_restarts, max_attempts_per_slot, slots_copy,
                   attempt, order, pos, word, tries, ok, stack, idx, retval, ret,
                   rejected, empty_seen>>

NextGen == Attempt \/ ChoiceRaises \/ FinishGenerate

SpecGen == InitGen /\ [][NextGen]_vars

\* ===================================================================== claims
\* ------------------------------------------------- extraction and numbering
Extracted == pc \in {"built", "numbered", "rebuilt"}
SlotSet == { slots[k] : k \in 1 .. Len(slots) }
GridCells == (DOMAIN mask) \X (DOMAIN mask)
White(cell) == cell \in GridCells /\ mask[cell[1]][cell[2]]

\* The cell just before the start of a slot and the cell just after its end.
CellBefore(s) == <<CellRow(s, 0 - 1), CellCol(s, 0 - 1)>>
CellAfter(s) == <<CellRow(s, s.length), CellCol(s, s.length)>>

\* C7: every slot returned by build_slots (5x5 and 6x6) has a length within
\* [WORD_MIN, WORD_MAX], lies on cells that are inside the grid and white in
\* the returned mask, and is a maximal run of that mask: the cell before its
\* start and the cell after its end are black or outside the grid.
C7_SlotsValidMaximal ==
    (Extracted /\ variant \in {"retry5", "retry6"}) =>
        \A s \in SlotSet :
            /\ WORD_MIN <= s.length /\ s.length <= WORD_MAX
            /\ \A cell \in SlotCells(s) : White(cell)
            /\ ~White(CellBefore(s))
            /\ ~White(CellAfter(s))

\* C7 witness: the pruning extraction returned a slot that ends inside the
\* grid, on a mask from which orphan cells were removed.
C7_Witness ==
    /\ pc = "built" /\ variant = "retry6"
    /\ mask # MaskOf(pattern)
    /\ \E s \in SlotSet : s.length < MaxGrid /\ CellAfter(s) \in GridCells

\* The valid-length maximal runs of the raw pattern, as sets of cells.
RawWhite(cell) ==
    cell \in ((DOMAIN pattern) \X (DOMAIN pattern)) /\ pattern[cell[1]][cell[2]] = "."
RawRuns ==
    { SlotCells(s) : s \in
        { t \in { Slot(d, r, c, L) : d \in {"across", "down"}, r \in DOMAIN pattern,
                                     c \in DOMAIN pattern, L \in WORD_MIN .. WORD_MAX } :
            /\ \A cell \in SlotCells(t) : RawWhite(cell)
            /\ ~RawWhite(CellBefore(t))
            /\ ~RawWhite(CellAfter(t)) } }

\* C8: after the orphan-pruning build_slots (6x6), every white cell of the
\* returned mask is covered by a returned slot, and every cell of a
\* valid-length slot of the raw pattern is still white.
C8_PrunedMaskCovered ==
    (pc \in {"built", "numbered"} /\ variant = "retry6") =>
        /\ \A cell \in GridCells : White(cell) => \E s \in SlotSet : cell \in SlotCells(s)
        /\ \A run \in RawRuns : \A cell \in run : White(cell)

\* C8 witness: pruning turned a white cell black and kept a slot.
C8_Witness ==
    /\ pc = "built" /\ variant = "retry6"
    /\ slots # <<>>
    /\ \E cell \in GridCells : RawWhite(cell) /\ ~White(cell)

\* C9: build_slots (6x6) run again on the pattern of the refined mask returns
\* the same mask and the same slot list.
C9_ExtractionIdempotent ==
    (pc = "rebuilt" /\ variant = "retry6") => (mask = first.mask /\ slots = first.slots)

\* C9 witness: the first extraction pruned cells and, on the cleaned mask,
\* found a slot that is not a run of the raw pattern; it was then run again.
C9_Witness ==
    /\ pc = "rebuilt" /\ variant = "retry6"
    /\ first.mask # MaskOf(pattern)
    /\ \E s \in SlotSet : SlotCells(s) \notin RawRuns

\* C20: build_slots_from_pattern (backtracking generator) records a maximal
\* run of white cells as a slot only if its length lies within
\* [WORD_MIN, WORD_MAX]: no returned slot is shorter than WORD_MIN or longer
\* than WORD_MAX.
C20_BacktrackSlotsWithinRange ==
    (Extracted /\ variant = "backtrack") =>
        \A s \in SlotSet : WORD_MIN <= s.length /\ s.length <= WORD_MAX

\* Row-major position of a cell, and the cells at which a slot starts.
RowMajor(cell) == cell[1] * GridSizeOf(mask) + cell[2]
StartCells == { <<s.row, s.col>> : s \in SlotSet }

\* C10: assign_numbers numbers exactly the slot-start cells 1, 2, 3, ... in
\* row-major order (so without gap or repetition), gives 0 to every other
\* cell, and sets each slot's number to the number of its start cell.
C10_NumberingSequential ==
    pc = "numbered" =>
        /\ \A cell \in GridCells :
              number_grid[cell[1]][cell[2]] =
                 IF cell \in StartCells
                 THEN Cardinality({ st \in StartCells : RowMajor(st) <= RowMajor(cell) })
                 ELSE 0
        /\ \A s \in SlotSet : s.number = number_grid[s.row][s.col] /\ s.number >= 1

\* C10 witness: an across and a down slot start at the same cell and share a
\* number that is not the first one.
C10_Witness ==
    /\ pc = "numbered"
    /\ \E s, t \in SlotSet :
          /\ s.dir = "across" /\ t.dir = "down"
          /\ s.row = t.row /\ s.col = t.col
          /\ s.number = t.number /\ s.number >= 2

\* -------------------------------------------------------- pattern transforms
\* applied is n applications of the transform t.
Times(t, n) == Len(applied) = n /\ Only(t)

\* C11: on every square pattern, rotate_clockwise applied four times,
\* flip_horizontal applied twice and flip_vertical applied twice give the
\* original pattern back, and no transform (random_pattern included) changes
\* the list it was given.
C11_TransformsRoundTrip ==
    /\ [](Times("rotate_clockwise", 4) => pattern = base_pattern)
    /\ [](Times("flip_horizontal", 2) => pattern = base_pattern)
    /\ [](Times("flip_vertical", 2) => pattern = base_pattern)
    /\ [][applied' # applied => arg' = pattern]_vars

\* C11 witness: four rotations of a pattern that one rotation, one horizontal
\* flip and one vertical flip each change.
C11_Witness ==
    /\ Times("rotate_clockwise", 4)
    /\ rotate_clockwise(base_pattern) # base_pattern
    /\ flip_horizontal(base_pattern) # base_pattern
    /\ flip_vertical(base_pattern) # base_pattern
    /\ arg = Rotated(base_pattern, 3)

\* The slot list the pruning build_slots extracts from the base pattern.
BaseSlots == build_slots_6x6(base_pattern).slots

\* How many slots of a list have length L.
CountOfLength(sl, L) == Cardinality({ k \in 1 .. Len(sl) : sl[k].length = L })

\* C12: the slot list build_slots (6x6, with orphan pruning) extracts from
\* rotate_clockwise(p), flip_horizontal(p), flip_vertical(p) or any result of
\* random_pattern(p) has as many slots as the slot list extracted from p, and
\* as many slots of every length (the same sorted multiset of lengths).
C12_TransformsKeepSlotLengths ==
    (pc = "built" /\ Len(applied) = 1) =>
        /\ Len(slots) = Len(BaseSlots)
        /\ \A L \in 0 .. GridSizeOf(pattern) :
              CountOfLength(slots, L) = CountOfLength(BaseSlots, L)

\* C12 witness: random_pattern changed the pattern, extraction pruned an
\* orphan cell and returned slots of two different lengths, placed
\* differently from the base pattern's slots.
C12_Witness ==
    /\ pc = "built" /\ applied = <<"random_pattern">>
    /\ pattern # base_pattern
    /\ mask # MaskOf(pattern)
    /\ slots # BaseSlots
    /\ \E j, k \in 1 .. Len(slots) : slots[j].length # slots[k].length

\* ------------------------------------------------------------ fill engines
Returned == pc = "done"
ReturnedSlots == { ret.slots[k] : k \in 1 .. Len(ret.slots) }

\* The word a grid spells along a slot.
Spelled(g, s) == [i \in 1 .. s.length |-> g[CellRow(s, i - 1)][CellCol(s, i - 1)]]

\* C1: when a fill_crossword variant returns success, every returned slot
\* carries a word as long as the slot, and the returned grid read along the
\* slot spells that word; so crossing slots agree on their shared cell.
C1_SuccessfulFillConsistent ==
    (Returned /\ ret.success) =>
        /\ Len(ret.slots) = Len(slots)
        /\ \A s \in ReturnedSlots :
              /\ Len(s.word) = s.length
              /\ Spelled(ret.grid, s) = s.word
        /\ \A s, t \in ReturnedSlots :
              \A i \in Idx(s.length), j \in Idx(t.length) :
                  (CellRow(s, i) = CellRow(t, j) /\ CellCol(s, i) = CellCol(t, j))
                      => s.word[i + 1] = t.word[j + 1]

\* C1 witness: a successful fill of a puzzle in which an across slot and a
\* down slot cross, with two different words in the lexicon.
C1_Witness ==
    /\ Returned /\ ret.success
    /\ \E s, t \in ReturnedSlots :
          /\ s.dir = "across" /\ t.dir = "down"
          /\ SlotCells(s) \cap SlotCells(t) # {}
          /\ s.word # t.word

\* A restart of the retry engine begins / the backtracking engine tries a
\* candidate (places it and searches on).
RestartBegins == pc = "for_attempt" /\ pc' = "for_slot"
CandidateTried == pc = "bt_for" /\ pc' = "bt_call"

\* C2: once an empty lexicon bucket has been met, fill_crossword fails at
\* once: the retry engine begins no further restart and the backtracking
\* engine tries no further candidate.
C2_EmptyBucketStopsSearch ==
    [][empty_seen => ~(RestartBegins \/ CandidateTried)]_vars

\* C3: every fill_crossword variant ends by returning a boolean success flag
\* and never raises.
C3_NeverRaises ==
    /\ pc # "raised"
    /\ Returned => ret.success \in BOOLEAN

\* C4: when fill_crossword returns failure the returned grid is not partially
\* filled: the retry engines return None, the backtracking engine returns a
\* grid whose white cells are all empty.
C4_NoPartialGridOnFailure ==
    (Returned /\ ~ret.success) =>
        IF variant = "backtrack"
        THEN ret.grid = make_blank(mask)
        ELSE ret.grid = NoneGrid

\* C4 witness: the backtracking engine fails although every bucket it met
\* had words, so candidates were placed and undone.
C4_Witness ==
    /\ Returned /\ ~ret.success
    /\ variant = "backtrack"
    /\ ~empty_seen
    /\ max_attempts_per_slot > 0
    /\ slots # <<>>

\* C5: in the retry engine at most max_attempts_per_slot drawn words fail the
\* fits test for one slot in one restart, and the word in hand when the slot
\* is given up was tested and did not fit.
C5_AttemptsBounded ==
    /\ rejected <= max_attempts_per_slot
    /\ pc = "give_up" => ~fits_retry(grid, CurrentSlot, word)

\* C6 (safety part): at most max_restarts restarts are started; only a
\* restart with an unplaced slot is abandoned; success is returned from a
\* restart that placed every slot; failure is returned after max_restarts
\* abandoned restarts, and with max_restarts = 0 nothing was placed.
C6_RestartsBounded ==
    /\ attempt <= max_restarts
    /\ InBody => attempt < max_restarts
    /\ pc \in {"give_up", "end_restart"} => pos <= Len(order)
    /\ (Returned /\ ret.success) =>
          /\ attempt < max_restarts
          /\ pos = Len(order) + 1
          /\ \A k \in 1 .. Len(WorkSlots) : WorkSlots[k].word # NoWord
    /\ (Returned /\ ~ret.success) => attempt = max_restarts
    /\ (Returned /\ max_restarts = 0) =>
          /\ ~ret.success
          /\ grid = NoGrid
          /\ \A k \in 1 .. Len(slots) : slots[k].word = NoWord

\* Progress of a retry run: restarts abandoned, then slots placed in the
\* current restart, then draws made for the current slot.  SlotSpan bounds the
\* progress within one slot, RestartSpan the progress within one restart.
SlotSpan == max_attempts_per_slot + 4
RestartSpan == (Len(slots) + 1) * SlotSpan + 2
Progress ==
    CASE pc = "for_attempt" -> attempt * RestartSpan
      [] pc = "for_slot" -> attempt * RestartSpan + 1 + (pos - 1) * SlotSpan
      [] pc = "end_restart" -> attempt * RestartSpan + 1 + (pos - 1) * SlotSpan + 1
      [] pc \in {"while", "give_up"} ->
            attempt * RestartSpan + 1 + (pos - 1) * SlotSpan + 1 + tries
                + (IF pc = "give_up" THEN 1 ELSE 0)
      [] OTHER -> (max_restarts + 1) * RestartSpan

\* C6: the randomized-retry fill_crossword always terminates, within the
\* restart budget stated above: every step of the engine increases Progress,
\* which never exceeds (max_restarts + 1) * RestartSpan, and the engine can
\* always take a step until it has returned (or raised).
C6_RetryTerminates ==
    /\ [](variant # "backtrack" => C6_RestartsBounded)
    /\ [](variant # "backtrack" =>
            /\ Progress <= (max_restarts + 1) * RestartSpan
            /\ (pc \in {"done", "raised"} \/ ENABLED RetryNext))
    /\ [][variant # "backtrack" => Progress' > Progress]_vars

\* C6 witness: the retry engine returned failure after abandoning two
\* restarts in which words had been placed.
C6_Witness ==
    /\ Returned /\ ~ret.success
    /\ variant = "retry6"
    /\ attempt = max_restarts /\ max_restarts >= 2
    /\ ~empty_seen

\* The 1-row, 3-column all-white pattern and the lexicon {"cat"}.
OneByThree == Pat(<< <<".", ".", ".">> >>)
CatLexicon == build_wordlists(<< <<"c", "a", "t">> >>)

\* C15: for the 1-row, 3-column all-white pattern with WORD_MIN = WORD_MAX = 3,
\* build_slots (5x5 and 6x6) yields exactly one slot, the across slot at row 0,
\* column 0 of length 3 (so no down slot), and filling it with the lexicon
\* {"cat"} succeeds with the grid row c, a, t.
C15_OneByThreeExample ==
    (pattern = OneByThree /\ WORD_MIN = 3 /\ WORD_MAX = 3
        /\ variant \in {"retry5", "retry6"}) =>
        /\ Len(slots) = 1
        /\ slots[1].dir = "across" /\ slots[1].row = 0 /\ slots[1].col = 0
        /\ slots[1].length = 3
        /\ (Returned /\ words_by_length = CatLexicon /\ max_restarts >= 1) =>
              /\ ret.success
              /\ ret.grid = Pat(<< <<"c", "a", "t">> >>)

\* ------------------------------------------------------ backtracking search
\* Slots s and t, holding the words v and w, agree on every cell they share.
Agree(s, v, t, w) ==
    \A i \in Idx(s.length), j \in Idx(t.length) :
        (CellRow(s, i) = CellRow(t, j) /\ CellCol(s, i) = CellCol(t, j))
            => v[i + 1] = w[j + 1]

\* The words of the lexicon, and the ways to give every slot one lexicon word
\* of its length.
LexiconWords == UNION { Choices(words_by_length[L]) : L \in DOMAIN words_by_length }
Assignments ==
    { a \in [1 .. Len(slots) -> LexiconWords] :
        \A k \in 1 .. Len(slots) : Len(a[k]) = slots[k].length }

\* Some assignment agrees on all crossings.
Solvable ==
    \E a \in Assignments :
        \A j, k \in 1 .. Len(slots) : Agree(slots[j], a[j], slots[k], a[k])

\* max_attempts_per_slot is at least the size of every lexicon bucket.
CapDoesNotBite ==
    \A L \in DOMAIN words_by_length : Len(words_by_length[L]) <= max_attempts_per_slot

\* No two different slots share a cell.
NoCrossing ==
    \A j, k \in 1 .. Len(slots) : j # k => SlotCells(slots[j]) \cap SlotCells(slots[k]) = {}

\* C13: when max_attempts_per_slot is at least the size of every lexicon
\* bucket, the backtracking fill_crossword returns success exactly when some
\* assignment of one same-length lexicon word to every slot agrees on all
\* crossings; so it succeeds whenever no two slots cross and every needed
\* length has a word.
C13_BacktrackingComplete ==
    (Returned /\ variant = "backtrack" /\ CapDoesNotBite) =>
        /\ ret.success <=> Solvable
        /\ (NoCrossing /\ \A k \in 1 .. Len(slots) : BucketGet(slots[k].length) # <<>>)
              => ret.success

\* C13 witness: the search succeeded under a cap that does not bite, with a
\* bucket of two words and an across and a down slot that cross and hold
\* different words.
C13_Witness ==
    /\ Returned /\ variant = "backtrack" /\ CapDoesNotBite
    /\ ret.success
    /\ \E L \in DOMAIN words_by_length : Len(words_by_length[L]) = 2
    /\ \E j, k \in 1 .. Len(slots) :
          /\ slots[j].dir = "across" /\ slots[k].dir = "down"
          /\ SlotCells(slots[j]) \cap SlotCells(slots[k]) # {}
          /\ slots[j].word # slots[k].word

\* ------------------------------------------------------------ clue workers
\* A step of a clue worker: a started worker moved on.
WorkerStepped == Len(workers') = Len(workers) /\ workers' # workers

\* C16: under every interleaving of the clue workers' statements with
\* new_word, show_clue, check and typing, a worker's step changes neither the
\* current word nor the entry text nor the status; so these change only in
\* steps of the main thread.
C16_WorkerChangesOnlyClue ==
    [][WorkerStepped => UNCHANGED <<current_word, word_var, status>>]_vars

\* C16 witness: one worker has run to its end and set the clue it fetched,
\* a second one is between its statements, and the main thread has meanwhile
\* changed the word, the entry text and the status.
C16_Witness ==
    /\ Len(workers) = 2
    /\ workers[1].pc = "done" /\ clue_var = workers[1].s
    /\ workers[2].pc = "set"
    /\ workers[1].s = DefinitionOf(<<"a", "b", "b", "a">>)
    /\ current_word = <<"b", "a", "b", "a", "b">>
    /\ word_var = <<"b", "a", "b", "a", "b">>
    /\ status.text = "Correct!"

\* ------------------------------------------------------------ fits and place
IsLetter(x) == x \notin {"", None}

\* Every cell of the slot is empty or already holds the word's letter.
CellsAllow(g, s, w) ==
    \A i \in Idx(Len(w)) :
        \/ g[CellRow(s, i)][CellCol(s, i)] = ""
        \/ g[CellRow(s, i)][CellCol(s, i)] = w[i + 1]

\* From grid g to grid g2 every cell that held a letter is unchanged and every
\* empty cell of the slot has received the word's letter.
PlacedInto(g, g2, s, w) ==
    /\ \A r \in DOMAIN g : \A c \in DOMAIN g[r] : IsLetter(g[r][c]) => g2[r][c] = g[r][c]
    /\ \A i \in Idx(Len(w)) :
          g[CellRow(s, i)][CellCol(s, i)] = "" => g2[CellRow(s, i)][CellCol(s, i)] = w[i + 1]

\* The slot and the candidate of the innermost backtrack() frame.
BtSlot == slots[order[stack[Len(stack)].idx + 1]]
BtWord == stack[Len(stack)].cands[stack[Len(stack)].k]
BtTesting == pc = "bt_for" /\ stack[Len(stack)].k <= Len(stack[Len(stack)].cands)

\* C17: in every fill_crossword variant, whenever fits(slot, word) is
\* evaluated it is true exactly when every cell of the slot is empty or holds
\* the word's letter at that position; and placing a word that fits leaves
\* every cell that held a letter unchanged, writes the word's letters into the
\* slot's empty cells and records the word on the slot.
C17_FitsAndPlace ==
    /\ [](pc = "while" => (fits_retry(grid, CurrentSlot, word)
                              <=> CellsAllow(grid, CurrentSlot, word)))
    /\ [](BtTesting => (fits_bt(grid, BtSlot, BtWord) <=> CellsAllow(grid, BtSlot, BtWord)))
    /\ [][(pc = "while" /\ pc' = "for_slot") =>
            /\ PlacedInto(grid, grid', CurrentSlot, word)
            /\ WorkSlots'[order[pos]].word = word]_vars
    /\ [][(pc = "bt_for" /\ pc' = "bt_call") =>
            /\ PlacedInto(grid, grid', BtSlot, BtWord)
            /\ slots'[order[stack[Len(stack)].idx + 1]].word = BtWord]_vars

\* C17 witness: the retry engine has just placed a word on a slot that
\* crosses a slot placed before it with a different word; the grid spells
\* both words.
C17_Witness ==
    /\ variant \in {"retry5", "retry6"}
    /\ pc = "for_slot" /\ pos >= 3
    /\ \E j \in 1 .. (pos - 2) :
          /\ SlotCells(WorkSlots[order[j]]) \cap SlotCells(WorkSlots[order[pos - 1]]) # {}
          /\ WorkSlots[order[j]].word # WorkSlots[order[pos - 1]].word
          /\ Spelled(grid, WorkSlots[order[j]]) = WorkSlots[order[j]].word
          /\ Spelled(grid, WorkSlots[order[pos - 1]]) = WorkSlots[order[pos - 1]].word

\* ----------------------------------------------------------- backtracking undo
\* The innermost backtrack() frame.
Top == stack[Len(stack)]

\* C18: whenever backtrack(idx) is between two candidates or about to return
\* False, the grid and the "word" fields of the slots at positions idx and
\* later in the order are exactly as they were when backtrack(idx) was
\* entered: unplace has cleared the cells the undone placement wrote and no
\* other, so letters of earlier slots at crossings are still there.
C18_UndoExact ==
    pc = "bt_for" =>
        /\ grid = Top.grid0
        /\ \A i \in (Top.idx + 1) .. Len(order) :
              slots[order[i]].word = Top.words0[order[i]]

\* C18 witness: a nested backtrack() call is about to return False after it
\* placed and undid a candidate on a slot that crosses an earlier slot, whose
\* letter is still in the grid.
C18_Witness ==
    /\ pc = "bt_for" /\ Len(stack) >= 2
    /\ Top.k > Len(Top.cands) /\ Top.cands # <<>>
    /\ \E cell \in SlotCells(BtSlot) : IsLetter(grid[cell[1]][cell[2]])
    /\ \E cell \in SlotCells(BtSlot) : grid[cell[1]][cell[2]] = ""

\* ------------------------------------------------------------------ restarts
\* The letter in a cell was written by a slot placed in the current restart.
WrittenNow(g, cell) ==
    \E j \in 1 .. (pos - 1) : \E i \in Idx(WorkSlots[order[j]].length) :
        /\ cell = <<CellRow(WorkSlots[order[j]], i), CellCol(WorkSlots[order[j]], i)>>
        /\ g[cell[1]][cell[2]] = WorkSlots[order[j]].word[i + 1]

\* C19: in the randomized-retry engines every restart begins from an empty
\* grid (every white cell empty, every black cell the block marker), and
\* every letter seen in the grid during a restart, or in the grid returned on
\* success, was written by a slot placed in that same restart.
C19_RestartFromEmptyGrid ==
    variant \in {"retry5", "retry6"} =>
        /\ (pc = "for_slot" /\ pos = 1) =>
              \A r \in DOMAIN grid : \A c \in DOMAIN grid[r] :
                  grid[r][c] = IF mask[r][c] THEN "" ELSE None
        /\ InBody =>
              \A r \in DOMAIN grid : \A c \in DOMAIN grid[r] :
                  IsLetter(grid[r][c]) => WrittenNow(grid, <<r, c>>)
        /\ (Returned /\ ret.success) =>
              \A r \in DOMAIN ret.grid : \A c \in DOMAIN ret.grid[r] :
                  IsLetter(ret.grid[r][c]) => WrittenNow(ret.grid, <<r, c>>)

\* C19 witness: a later restart begins, on the blank grid, after a restart
\* that placed words was abandoned.
C19_Witness ==
    /\ variant \in {"retry5", "retry6"}
    /\ pc = "for_slot" /\ pos = 1 /\ attempt >= 1
    /\ ~empty_seen
    /\ \E r \in DOMAIN grid : \E c \in DOMAIN grid[r] : grid[r][c] = ""

\* ------------------------------------------------------------------ word reuse
\* C21: the backtracking engine excludes no word because another slot already
\* holds it: when the cap does not bite, the candidates of every backtrack()
\* call are all the words of the slot's bucket that agree with the letters
\* the grid held at entry, whether or not a slot carries them; so a
\* successful fill in which two slots carry the same word is reachable.
C21_WordReusePermitted ==
    (pc = "bt_for" /\ CapDoesNotBite) =>
        \A w \in Choices(BucketGet(BtSlot.length)) :
            CellsAllow(Top.grid0, BtSlot, w) => w \in Choices(Top.cands)

\* C21 witness: a successful backtracking fill in which two different slots
\* of length two or more carry the same word.
C21_Witness ==
    /\ Returned /\ ret.success /\ variant = "backtrack"
    /\ \E j, k \in 1 .. Len(ret.slots) :
          /\ j # k
          /\ ret.slots[j].word = ret.slots[k].word
          /\ Len(ret.slots[j].word) >= 2

\* ------------------------------------------------------- stale definitions
\* C22: whenever the clue text shows a fetched definition, it is the
\* definition of the word that is current at that moment.
C22_ClueMatchesCurrentWord ==
    \A k \in 1 .. Len(AppWordList) :
        clue_var = DefinitionOf(AppWordList[k]) => current_word = AppWordList[k]

\* ------------------------------------------------- inputs and returned slots
\* A slot record without its "word".
WithoutWord(s) == [s EXCEPT !.word = NoWord]

\* C23: the 6x6 randomized-retry fill_crossword never changes its inputs: in
\* every step the caller's slot list, the mask and the lexicon stay as they
\* are and no caller's slot ever carries a "word"; on success the returned
\* list has the input's length and each returned slot has the direction,
\* start, length and number of the input slot at the same index.
C23_InputsUnchanged ==
    /\ [][variant = "retry6" => UNCHANGED <<slots, mask, words_by_length>>]_vars
    /\ [](variant = "retry6" => \A k \in 1 .. Len(slots) : slots[k].word = NoWord)
    /\ []((variant = "retry6" /\ Returned /\ ret.success) =>
            /\ Len(ret.slots) = Len(slots)
            /\ \A k \in 1 .. Len(slots) : WithoutWord(ret.slots[k]) = slots[k])

\* C23 witness: the 6x6 engine returned success with a word on each of
\* several numbered slots, after an earlier restart was abandoned.
C23_Witness ==
    /\ variant = "retry6" /\ Returned /\ ret.success
    /\ attempt >= 1
    /\ Len(ret.slots) >= 2
    /\ \A k \in 1 .. Len(ret.slots) : ret.slots[k].word # NoWord /\ ret.slots[k].number >= 1

\* C24: when the 6x6 randomized-retry fill_crossword returns failure, no
\* returned slot record carries a "word".
C24_FailureSlotsWithoutWords ==
    (variant = "retry6" /\ Returned /\ ~ret.success) =>
        \A k \in 1 .. Len(ret.slots) : ret.slots[k].word = NoWord

\* ---------------------------------------------------- free-placement generator
\* The recorded word e lies inside the grid g and g spells it, letter for
\* letter, from its recorded start along its recorded direction.
ReadsBack(g, e) ==
    \A i \in Idx(Len(e.word)) :
        /\ CellRow(e, i) \in Idx(GRID_SIZE)
        /\ CellCol(e, i) \in Idx(GRID_SIZE)
        /\ g[CellRow(e, i)][CellCol(e, i)] = e.word[i + 1]

\* The cells of a recorded word.
InfoCells(e) == { <<CellRow(e, i), CellCol(e, i)>> : i \in Idx(Len(e.word)) }

\* C25: in the free-placement generator, where place_word is called only
\* after can_place returned True, every word recorded in words_info lies
\* inside the grid and reads letter for letter from the grid at its recorded
\* row, column and direction; and a step never changes a record or a letter
\* of a word recorded before it.
C25_PlacedWordsReadBack ==
    /\ [](\A k \in 1 .. Len(words_info) : ReadsBack(grid, words_info[k]))
    /\ [][\A k \in 1 .. Len(words_info) :
            /\ words_info'[k] = words_info[k]
            /\ ReadsBack(grid', words_info[k])]_vars

\* C25 witness: generation ended with two different words recorded, one
\* across and one down, that share a cell.
C25_Witness ==
    /\ pc = "generated"
    /\ \E j, k \in 1 .. Len(words_info) :
          /\ j < k
          /\ words_info[j].dir # words_info[k].dir
          /\ words_info[j].word # words_info[k].word
          /\ InfoCells(words_info[j]) \cap InfoCells(words_info[k]) # {}

\* C26: for every non-empty word pool generate_crossword ends without
\* raising: it makes at most max_attempts placement attempts, places at most
\* NUM_WORDS words and never places the same word twice.
C26_GenerateNeverRaises ==
    words_pool # <<>> =>
        /\ pc # "raised"
        /\ attempts <= max_attempts
        /\ placed_words <= NUM_WORDS
        /\ \A j, k \in 1 .. Len(words_info) :
              j # k => words_info[j].word # words_info[k].word

====
